---- MODULE Spec2Model ----
(***************************************************************************)
(* Model of utils/ml_project_creator.py: the folder-specification parser,  *)
(* the project builder (MLProjectCreator.create_project), the tree         *)
(* renderer (print_project_structure) and the command-line entry point.    *)
(*                                                                         *)
(* A Python str is a sequence of one-character strings.  A path is the     *)
(* sequence of its components below the current working directory, so <<>> *)
(* is Path.cwd().  A dict is the sequence of its items in insertion order. *)
(***************************************************************************)
EXTENDS Integers, Sequences, FiniteSets, TLC

\* ------------------------------------------------------------------ bounds
MaxTokenLen == 4
MaxTokens == 2
MaxDepth == 2
MaxClock == 1
MaxCalls == 2
MaxFolders == 2
MaxSubs == 2

\* ------------------------------------------------------------- str helpers
Alphabet == {"a", "b", " ", ":", ","}

Whitespace == {" "}

RECURSIVE StrsUpTo(_, _)
StrsUpTo(chars, n) ==
    IF n = 0 THEN {<<>>}
    ELSE LET shorter == StrsUpTo(chars, n - 1)
         IN  shorter \cup {Append(s, c) : s \in shorter, c \in chars}

RECURSIVE ListsUpTo(_, _)
ListsUpTo(elems, n) ==
    IF n = 0 THEN {<<>>}
    ELSE LET shorter == ListsUpTo(elems, n - 1)
         IN  shorter \cup {Append(s, e) : s \in shorter, e \in elems}

\* the characters the model uses, in code point order
CodeOrder ==
    <<" ", ",", "/", "0", "1", "2", "3", "4", "5", "6", "7", "8", "9", ":", "_",
      "a", "b", "c", "d", "e", "f", "g", "h", "i", "j", "k", "l", "m",
      "n", "o", "p", "q", "r", "s", "t", "u", "v", "w", "x", "y", "z">>

Ord(c) == CHOOSE k \in 1..Len(CodeOrder) : CodeOrder[k] = c

\* s < t for Python str
RECURSIVE StrLess(_, _)
StrLess(s, t) ==
    IF t = <<>> THEN FALSE
    ELSE IF s = <<>> THEN TRUE
    ELSE IF Head(s) = Head(t) THEN StrLess(Tail(s), Tail(t))
    ELSE Ord(Head(s)) < Ord(Head(t))

RECURSIVE LStrip(_)
LStrip(s) ==
    IF s = <<>> THEN s
    ELSE IF Head(s) \in Whitespace THEN LStrip(Tail(s))
    ELSE s

RECURSIVE RStrip(_)
RStrip(s) ==
    IF s = <<>> THEN s
    ELSE IF s[Len(s)] \in Whitespace THEN RStrip(SubSeq(s, 1, Len(s) - 1))
    ELSE s

\* str.strip()
Strip(s) == RStrip(LStrip(s))

\* sep in s
Contains(s, sep) == \E k \in 1..Len(s) : s[k] = sep

\* position of the first occurrence of sep in s (s contains sep)
FirstIndex(s, sep) ==
    CHOOSE k \in 1..Len(s) : s[k] = sep /\ \A m \in 1..(k - 1) : s[m] # sep

\* s.split(sep, 1) for s containing sep: <<left, right>>
SplitOnceAtLast(s, sep) ==
    LET k == CHOOSE n \in 1..Len(s) :
                s[n] = sep /\ \A m \in (n + 1)..Len(s) : s[m] # sep
    IN  <<SubSeq(s, 1, k - 1), SubSeq(s, k + 1, Len(s))>>
SplitOnce(s, sep) ==
    LET k == FirstIndex(s, sep)
    IN  <<SubSeq(s, 1, k - 1), SubSeq(s, k + 1, Len(s))>>

\* s.split(sep): every piece, the empty ones included
RECURSIVE Split(_, _)
Split(s, sep) ==
    IF ~Contains(s, sep) THEN <<s>>
    ELSE LET k == FirstIndex(s, sep)
         IN  <<SubSeq(s, 1, k - 1)>> \o Split(SubSeq(s, k + 1, Len(s)), sep)

\* --------------------------------------------------------------- dict ops
DictKeys(d) == {d[k].name : k \in 1..Len(d)}

DictIndex(d, key) == CHOOSE k \in 1..Len(d) : d[k].name = key

\* d[key] = value: an existing key keeps its position, a new key goes last
DictSet(d, key, value) ==
    IF key \in DictKeys(d)
    THEN [k \in 1..Len(d) |->
            IF d[k].name = key THEN [name |-> key, subs |-> value] ELSE d[k]]
    ELSE Append(d, [name |-> key, subs |-> value])

\* ----------------------------------------------------------------- parser
\* [s.strip() for s in sub_spec.split(',') if s.strip()]
RECURSIVE StripAndFilter(_)
StripAndFilter(pieces) ==
    IF pieces = <<>> THEN <<>>
    ELSE LET s == Strip(Head(pieces))
         IN  (IF s # <<>> THEN <<s>> ELSE <<>>) \o StripAndFilter(Tail(pieces))

\* one iteration of the loop over folder_specs
ParseOne(res, spec) ==
    IF Contains(spec, ":")
    THEN LET parts == SplitOnce(spec, ":")
             sub_folders == StripAndFilter(Split(parts[2], ","))
         IN  DictSet(res, parts[1], sub_folders)
    ELSE DictSet(res, spec, <<>>)

RECURSIVE ParseFrom(_, _)
ParseFrom(res, specs) ==
    IF specs = <<>> THEN res
    ELSE ParseFrom(ParseOne(res, Head(specs)), Tail(specs))

parse_folders_with_colon(specs) == ParseFrom(<<>>, specs)

\* ------------------------------------------------------------- filesystem
\* base / name: joining the empty string leaves the path unchanged
Join(base, name) == IF name = <<>> THEN base ELSE Append(base, name)

Parent(p) == SubSeq(p, 1, Len(p) - 1)

\* path.name
PathName(p) == IF p = <<>> THEN <<>> ELSE p[Len(p)]

\* path.iterdir()
IterDir(D, F, p) == {q \in D \cup F : Len(q) = Len(p) + 1 /\ Parent(q) = p}

\* sorted(paths) for paths of one directory
RECURSIVE SortedPaths(_)
SortedPaths(S) ==
    IF S = {} THEN <<>>
    ELSE LET m == CHOOSE x \in S :
                    \A y \in S \ {x} : StrLess(PathName(x), PathName(y))
         IN  <<m>> \o SortedPaths(S \ {m})

RECURSIVE SelectSeq2(_, _)
SelectSeq2(s, S) ==
    IF s = <<>> THEN <<>>
    ELSE (IF Head(s) \in S THEN <<Head(s)>> ELSE <<>>) \o SelectSeq2(Tail(s), S)

\* --------------------------------------------------------------- renderer
\* the connectors and indentation units of the tree display
ELBOW == "+-- "
TEE == "|-- "
BLANK == "    "
PIPE == "|   "

TreeLine(prefix, connector, name, slash) ==
    [kind |-> "tree", prefix |-> prefix, connector |-> connector,
     name |-> name, slash |-> slash]

TextLine(text) == [kind |-> "text", text |-> text]

\* is_last_dir of the i-th of ndirs subdirectories, nfiles files following
IsLastDir(i, ndirs, nfiles) == (i = ndirs) /\ nfiles = 0

\* new_prefix
NewPrefix(prefix, is_last) == Append(prefix, IF is_last THEN BLANK ELSE PIPE)

\* the lines _print_directory_tree(path, prefix, is_last) prints
RECURSIVE PrintDirectoryTree(_, _, _, _, _)
RECURSIVE PrintSubdirs(_, _, _, _, _, _, _)
PrintSubdirs(D, F, subdirs, i, nfiles, prefix, is_last) ==
    IF i > Len(subdirs) THEN <<>>
    ELSE PrintDirectoryTree(D, F, subdirs[i], NewPrefix(prefix, is_last),
                            IsLastDir(i, Len(subdirs), nfiles))
         \o PrintSubdirs(D, F, subdirs, i + 1, nfiles, prefix, is_last)

PrintDirectoryTree(D, F, path, prefix, is_last) ==
    IF path \in D
    THEN LET items == SortedPaths(IterDir(D, F, path))
             subdirs == SelectSeq2(items, D)
             fls == SelectSeq2(items, F)
         IN  <<TreeLine(prefix, IF is_last THEN ELBOW ELSE TEE,
                        PathName(path), TRUE)>>
             \o PrintSubdirs(D, F, subdirs, 1, Len(fls), prefix, is_last)
             \o [i \in 1..Len(fls) |->
                   TreeLine(NewPrefix(prefix, is_last),
                            IF i = Len(fls) THEN ELBOW ELSE TEE,
                            PathName(fls[i]), FALSE)]
    ELSE <<>>

RECURSIVE PrintRootItems(_, _, _, _)
PrintRootItems(D, F, items, i) ==
    IF i > Len(items) THEN <<>>
    ELSE PrintDirectoryTree(D, F, items[i], <<>>, i = Len(items))
         \o PrintRootItems(D, F, items, i + 1)

\* the lines print_project_structure(project_root) prints
PrintProjectStructure(D, F, root) ==
    <<TextLine("Created ML project successfully"),
      TextLine("Project Structure:"),
      TextLine("=" ), TextLine(PathName(root) \o <<"/">>)>>
    \o PrintRootItems(D, F, SortedPaths(IterDir(D, F, root)), 1)
    \o <<TextLine("=")>>

\* ------------------------------------------------------------------ state
VARIABLES
    dirs,           \* the directories that exist, as paths below cwd
    files,          \* the regular files that exist
    now,            \* datetime.now(), in seconds
    structure,      \* self.structure of the MLProjectCreator
    pc,             \* position of the running call
    project_name,   \* argument of create_project
    timestamp,      \* local of create_project
    project_root,   \* local of create_project
    fi,             \* position of the loop over structure.items()
    si,             \* position of the loop over sub_folders
    raised,         \* the exception propagating out of create_project
    caught,         \* the exception main's handlers received
    stdout,         \* the lines printed by the running call
    folder_specs,   \* argument of parse_folders_with_colon
    result,         \* its return value
    entry_dirs,     \* dirs when create_project was entered
    created,        \* the paths whose mkdir returned, in call order
    done_calls,     \* <<project_name, timestamp>> of the calls that returned
    ncalls          \* number of create_project calls finished

vars == <<dirs, files, now, structure, pc, project_name, timestamp,
          project_root, fi, si, raised, caught, stdout, folder_specs, result,
          entry_dirs, created, done_calls, ncalls>>

\* ------------------------------------------------------------ constructor
DefaultStructure ==
    << [name |-> <<"d", "a", "t", "a">>,
        subs |-> << <<"r", "a", "w">>, <<"o", "u", "t", "p", "u", "t">>,
                    <<"p", "r", "o", "c", "e", "s", "s", "e", "d">> >>],
       [name |-> <<"m", "o", "d", "e", "l", "s">>,
        subs |-> << <<"c", "h", "e", "c", "k", "p", "o", "i", "n", "t", "s">> >>],
       [name |-> <<"u", "t", "i", "l", "s">>, subs |-> <<>>],
       [name |-> <<"l", "o", "g", "s">>, subs |-> <<>>],
       [name |-> <<"c", "o", "n", "f", "i", "g", "s">>, subs |-> <<>>],
       [name |-> <<"n", "o", "t", "e", "b", "o", "o", "k", "s">>, subs |-> <<>>] >>

\* {folder: [] for folder in folders}
RECURSIVE DictFromList(_, _)
DictFromList(d, folders) ==
    IF folders = <<>> THEN d
    ELSE DictFromList(DictSet(d, Head(folders), <<>>), Tail(folders))

\* MLProjectCreator.__init__(folders)
MLProjectCreatorInit(folders) ==
    IF folders.kind = "None" THEN DefaultStructure
    ELSE IF folders.kind = "list" THEN DictFromList(<<>>, folders.v)
    ELSE folders.v

\* ----------------------------------------------------------------- builder
Digits == <<"0", "1", "2", "3", "4", "5", "6", "7", "8", "9">>

\* datetime.now().strftime(...): fixed width, one value per second
Strftime(t) == <<Digits[((t \div 10) % 10) + 1], Digits[(t % 10) + 1]>>

\* not project_name.strip()
IsEmptyNameNoStrip(name) == name = <<>>
IsEmptyName(name) == Strip(name) = <<>>

\* f"{project_name}_{timestamp}"
FullProjectName(name, ts) == name \o <<"_">> \o ts

\* folder_path = base_path / folder_name
FolderPath(base_path, folder_name) == Join(base_path, folder_name)

\* sub_path = folder_path / sub_folder
SubPathFromBase(base_path, folder_name, sub_folder) == Join(base_path, sub_folder)
SubPath(base_path, folder_name, sub_folder) ==
    Join(FolderPath(base_path, folder_name), sub_folder)

\* path.mkdir(exist_ok=True): an existing directory is accepted, an existing
\* file or a missing parent is an OSError, and creating a new directory
\* succeeds or is refused by the host (permission, disk full, invalid name)
MkdirOutcomesNoExistOk(D, F, p) ==
    IF p \in D \/ p \in F \/ Parent(p) \notin D THEN {"OSError"}
    ELSE {"ok", "OSError"}
MkdirOutcomes(D, F, p) ==
    IF p \in D THEN {"ok"}
    ELSE IF p \in F \/ Parent(p) \notin D THEN {"OSError"}
    ELSE {"ok", "OSError"}

\* one mkdir call inside the try block: on success control goes to okpc
Mkdir(p, okpc) ==
    \E o \in MkdirOutcomes(dirs, files, p) :
        IF o = "ok"
        THEN /\ dirs' = dirs \cup {p}
             /\ created' = Append(created, p)
             /\ pc' = okpc
             /\ raised' = raised
        ELSE /\ raised' = o
             /\ pc' = "except"
             /\ UNCHANGED <<dirs, created>>

\* entry of create_project: validation, timestamp, root path
EnterCreate(name) ==
    /\ project_name' = name
    /\ entry_dirs' = dirs
    /\ created' = <<>>
    /\ stdout' = <<>>
    /\ fi' = 0
    /\ si' = 0
    /\ IF IsEmptyName(name)
       THEN /\ raised' = "ValueError"
            /\ pc' = "raised"
            /\ timestamp' = <<>>
            /\ project_root' = <<>>
       ELSE /\ raised' = "none"
            /\ pc' = "mkroot"
            /\ timestamp' = Strftime(now)
            /\ project_root' = Join(<<>>, FullProjectName(name, Strftime(now)))
    /\ UNCHANGED <<dirs, files, now, structure, caught, folder_specs, result,
                   done_calls, ncalls>>

\* project_root.mkdir(exist_ok=True)
MkRoot ==
    /\ pc = "mkroot"
    /\ Mkdir(project_root, "mkfolder")
    /\ fi' = 1
    /\ UNCHANGED <<files, now, structure, project_name, timestamp,
                   project_root, si, caught, stdout, folder_specs, result,
                   entry_dirs, done_calls, ncalls>>

\* folder_path.mkdir(exist_ok=True) for the next item of the structure
MkFolder ==
    /\ pc = "mkfolder"
    /\ fi <= Len(structure)
    /\ Mkdir(FolderPath(project_root, structure[fi].name), "mksub")
    /\ si' = 1
    /\ UNCHANGED <<files, now, structure, project_name, timestamp,
                   project_root, fi, caught, stdout, folder_specs, result,
                   entry_dirs, done_calls, ncalls>>

\* sub_path.mkdir(exist_ok=True) for the next sub_folder
MkSub ==
    /\ pc = "mksub"
    /\ si <= Len(structure[fi].subs)
    /\ Mkdir(SubPath(project_root, structure[fi].name, structure[fi].subs[si]),
             "mksub")
    /\ si' = si + 1
    /\ UNCHANGED <<files, now, structure, project_name, timestamp,
                   project_root, fi, caught, stdout, folder_specs, result,
                   entry_dirs, done_calls, ncalls>>

\* the inner loop is exhausted: on to the next item of the structure
NextFolder ==
    /\ pc = "mksub"
    /\ si > Len(structure[fi].subs)
    /\ fi' = fi + 1
    /\ pc' = "mkfolder"
    /\ UNCHANGED <<dirs, files, now, structure, project_name, timestamp,
                   project_root, si, raised, caught, stdout, folder_specs,
                   result, entry_dirs, created, done_calls, ncalls>>

\* the outer loop is exhausted: print the tree and return project_root
PrintAndReturn ==
    /\ pc = "mkfolder"
    /\ fi > Len(structure)
    /\ stdout' = PrintProjectStructure(dirs, files, project_root)
    /\ pc' = "returned"
    /\ UNCHANGED <<dirs, files, now, structure, project_name, timestamp,
                   project_root, fi, si, raised, caught, folder_specs, result,
                   entry_dirs, created, done_calls, ncalls>>

\* where an exception leaves the except OSError block
HandlerExitSwallow(exc) == [pc |-> "returned", raised |-> "none"]
HandlerExit(exc) == [pc |-> "raised", raised |-> exc]

\* except OSError as e: print(...); raise
ExceptOSError ==
    /\ pc = "except"
    /\ stdout' = Append(stdout, TextLine("Error occurred while creating project"))
    /\ pc' = HandlerExit(raised).pc
    /\ raised' = HandlerExit(raised).raised
    /\ UNCHANGED <<dirs, files, now, structure, project_name, timestamp,
                   project_root, fi, si, caught, folder_specs, result,
                   entry_dirs, created, done_calls, ncalls>>

\* ------------------------------------------------- programmatic use (Spec)
\* the project names tried: empty, blank, plain, and with surrounding blanks
ProjectNames == {<<>>, <<" ">>, <<"p">>, <<" ", "p">>, <<"p", " ">>}

FolderNames == {<<"a">>, <<"b">>}

\* the structures a caller passes: keys are distinct and non-empty
RECURSIVE DictsUpTo(_)
DictsUpTo(n) ==
    IF n = 0 THEN {<<>>}
    ELSE LET shorter == DictsUpTo(n - 1)
         IN  shorter \cup
             {Append(d, [name |-> k, subs |-> v]) :
                d \in {x \in shorter : Len(x) = n - 1},
                k \in FolderNames, v \in ListsUpTo(FolderNames, MaxSubs)}

FolderInputs ==
    {[kind |-> "None"]}
    \cup {[kind |-> "list", v |-> l] : l \in ListsUpTo(FolderNames, MaxFolders)}
    \cup {[kind |-> "dict", v |-> d] :
            d \in {x \in DictsUpTo(MaxFolders) :
                     \A m, n \in 1..Len(x) : m # n => x[m].name # x[n].name}}

InitFrame ==
    /\ project_name = <<>>
    /\ timestamp = <<>>
    /\ project_root = <<>>
    /\ fi = 0
    /\ si = 0
    /\ raised = "none"
    /\ caught = "none"
    /\ stdout = <<>>
    /\ entry_dirs = {}
    /\ created = <<>>
    /\ done_calls = {}
    /\ ncalls = 0

\* the creators used for repeated calls: the default, a folder list, the
\* nested structure of the layout example, and a repeated subfolder
SampleFolders ==
    { [kind |-> "None"],
      [kind |-> "list", v |-> << <<"a">>, <<"b">> >>],
      [kind |-> "dict", v |-> << [name |-> <<"a">>, subs |-> << <<"a">>, <<"b">> >>],
                                 [name |-> <<"b">>, subs |-> <<>>] >>],
      [kind |-> "dict", v |-> << [name |-> <<"a">>, subs |-> << <<"a">>, <<"a">> >>] >>] }

Init ==
    /\ dirs = {<<>>}
    /\ files = {}
    /\ now = 0
    /\ structure \in {MLProjectCreatorInit(f) : f \in SampleFolders}
    /\ pc = "idle"
    /\ folder_specs = <<>>
    /\ result = <<>>
    /\ InitFrame

\* creator.create_project(name)
ApiCall ==
    /\ pc = "idle"
    /\ ncalls < MaxCalls
    /\ \E name \in ProjectNames : EnterCreate(name)

\* the call is over: the caller has the return value or the exception, and
\* the frame of create_project is gone
ApiReturn ==
    /\ pc \in {"returned", "raised"}
    /\ pc' = "idle"
    /\ done_calls' = IF pc = "returned"
                     THEN done_calls \cup {<<project_name, timestamp>>}
                     ELSE done_calls
    /\ ncalls' = ncalls + 1
    /\ project_name' = <<>>
    /\ timestamp' = <<>>
    /\ project_root' = <<>>
    /\ fi' = 0
    /\ si' = 0
    /\ raised' = "none"
    /\ stdout' = <<>>
    /\ entry_dirs' = {}
    /\ created' = <<>>
    /\ UNCHANGED <<dirs, files, now, structure, caught, folder_specs, result>>

\* a second passes between two calls
Tick ==
    /\ pc = "idle"
    /\ now < MaxClock
    /\ now' = now + 1
    /\ UNCHANGED <<dirs, files, structure, pc, project_name, timestamp,
                   project_root, fi, si, raised, caught, stdout, folder_specs,
                   result, entry_dirs, created, done_calls, ncalls>>

CreateSteps ==
    \/ MkRoot
    \/ MkFolder
    \/ MkSub
    \/ NextFolder
    \/ PrintAndReturn
    \/ ExceptOSError

Next ==
    \/ ApiCall
    \/ CreateSteps
    \/ ApiReturn
    \/ Tick

Spec == Init /\ [][Next]_vars

\* ------------------------------------------------- a single call (SpecOnce)
InitOnce ==
    /\ dirs = {<<>>}
    /\ files = {}
    /\ now \in 0..MaxClock
    /\ structure \in {MLProjectCreatorInit(f) : f \in FolderInputs}
    /\ pc = "idle"
    /\ folder_specs = <<>>
    /\ result = <<>>
    /\ InitFrame

\* the first creator.create_project(name)
ApiCallOnce ==
    /\ pc = "idle"
    /\ ncalls = 0
    /\ \E name \in ProjectNames : EnterCreate(name)

NextOnce ==
    \/ ApiCallOnce
    \/ CreateSteps
    \/ ApiReturn

SpecOnce == InitOnce /\ [][NextOnce]_vars

\* ------------------------------------------------ command line (SpecMain)
\* args.folders: absent, or the tokens after --folders
ArgTokens ==
    { <<>>, <<"a">>, <<"b">>, <<":", "a">>, <<"a", ":", "a", ",", "b">>,
      <<"a", ":", " ", "b", " ", ",">>, <<"b", ":">>, <<"a", ":", "a", ",", "a">> }

ArgFolders ==
    {[kind |-> "None"]}
    \cup {[kind |-> "list", v |-> l] : l \in ListsUpTo(ArgTokens, MaxTokens)}

\* if args.folders
Truthy(folders) == folders.kind = "list" /\ folders.v # <<>>

InitMain ==
    /\ dirs = {<<>>}
    /\ files = {}
    /\ now \in 0..MaxClock
    /\ structure = <<>>
    /\ pc = "start"
    /\ folder_specs = <<>>
    /\ result = <<>>
    /\ InitFrame

\* main(): parse the arguments, build the creator
MainStart ==
    /\ pc = "start"
    /\ \E name \in ProjectNames, folders \in ArgFolders :
          /\ project_name' = name
          /\ IF Truthy(folders)
             THEN /\ folder_specs' = folders.v
                  /\ result' = parse_folders_with_colon(folders.v)
                  /\ structure' = MLProjectCreatorInit(
                        [kind |-> "dict", v |-> parse_folders_with_colon(folders.v)])
             ELSE /\ structure' = MLProjectCreatorInit([kind |-> "None"])
                  /\ UNCHANGED <<folder_specs, result>>
    /\ pc' = "main_call"
    /\ UNCHANGED <<dirs, files, now, timestamp, project_root, fi, si, raised,
                   caught, stdout, entry_dirs, created, done_calls, ncalls>>

\* creator.create_project(args.project_name)
MainCreate ==
    /\ pc = "main_call"
    /\ EnterCreate(project_name)

\* the tree could not be rendered for a reason that is neither a ValueError
\* nor an OSError (MemoryError, RecursionError)
RenderFault ==
    /\ pc = "mkfolder"
    /\ fi > Len(structure)
    /\ raised' = "Exception"
    /\ pc' = "raised"
    /\ UNCHANGED <<dirs, files, now, structure, project_name, timestamp,
                   project_root, fi, si, caught, stdout, folder_specs, result,
                   entry_dirs, created, done_calls, ncalls>>

\* the message of the except clause that matches exc, in clause order
MainMessageCatchAllFirst(exc) == "Unknown error"
MainMessage(exc) ==
    IF exc = "ValueError" THEN "Input error"
    ELSE IF exc = "OSError" THEN "File system error"
    ELSE "Unknown error"

\* except ValueError / OSError / Exception: print(...); return
MainExcept ==
    /\ pc = "raised"
    /\ stdout' = Append(stdout, TextLine(MainMessage(raised)))
    /\ caught' = raised
    /\ raised' = "none"
    /\ pc' = "exited"
    /\ UNCHANGED <<dirs, files, now, structure, project_name, timestamp,
                   project_root, fi, si, folder_specs, result, entry_dirs,
                   created, done_calls, ncalls>>

\* create_project returned: main falls off the end of the try block
MainReturn ==
    /\ pc = "returned"
    /\ pc' = "exited"
    /\ UNCHANGED <<dirs, files, now, structure, project_name, timestamp,
                   project_root, fi, si, raised, caught, stdout, folder_specs,
                   result, entry_dirs, created, done_calls, ncalls>>

NextMain ==
    \/ MainStart
    \/ MainCreate
    \/ CreateSteps
    \/ RenderFault
    \/ MainExcept
    \/ MainReturn

SpecMain == InitMain /\ [][NextMain]_vars

\* ------------------------------------------------------ parser (SpecParse)
Tokens == StrsUpTo(Alphabet, MaxTokenLen)

\* the empty token and the one-character tokens
ShortTokens == {<<>>} \cup {<<c>> : c \in Alphabet}

ShortLists == ListsUpTo(ShortTokens, MaxTokens - 1)

\* the token sequences tried: one token of any length up to MaxTokenLen,
\* before or after up to MaxTokens - 1 short ones
ParserInput(t, rest, first) == IF first THEN <<t>> \o rest ELSE rest \o <<t>>

InitParse ==
    /\ dirs = {<<>>}
    /\ files = {}
    /\ now = 0
    /\ structure = <<>>
    /\ pc = "parse_call"
    /\ \/ folder_specs = <<>>
       \/ \E t \in Tokens, rest \in ShortLists, first \in BOOLEAN :
             folder_specs = ParserInput(t, rest, first)
    /\ result = <<>>
    /\ InitFrame

ParseFolders ==
    /\ pc = "parse_call"
    /\ result' = parse_folders_with_colon(folder_specs)
    /\ pc' = "parse_done"
    /\ UNCHANGED <<dirs, files, now, structure, project_name, timestamp,
                   project_root, fi, si, raised, caught, stdout, folder_specs,
                   entry_dirs, created, done_calls, ncalls>>

NextParse == ParseFolders

SpecParse == InitParse /\ [][NextParse]_vars

\* ----------------------------------------------------- renderer (SpecTree)
TreeNames == {<<"a">>, <<"b">>}

TreeRoot == << <<"p", "_", "0", "0">> >>

EmptyTree == [d |-> {}, f |-> {}]

\* every tree of depth at most depth below the directory p
RECURSIVE TreesBelow(_, _, _)
TreesBelow(p, names, depth) ==
    IF names = {} \/ depth = 0 THEN {EmptyTree}
    ELSE LET n == CHOOSE x \in names : TRUE
             q == Append(p, n)
             rest == TreesBelow(p, names \ {n}, depth)
             here == {EmptyTree, [d |-> {}, f |-> {q}]}
                     \cup {[d |-> {q} \cup t.d, f |-> t.f] :
                             t \in TreesBelow(q, TreeNames, depth - 1)}
         IN  {[d |-> h.d \cup r.d, f |-> h.f \cup r.f] : h \in here, r \in rest}

InitTree ==
    /\ \E t \in TreesBelow(TreeRoot, TreeNames, MaxDepth) :
          /\ dirs = {<<>>, TreeRoot} \cup t.d
          /\ files = t.f
    /\ now = 0
    /\ structure = <<>>
    /\ pc = "print_call"
    /\ folder_specs = <<>>
    /\ result = <<>>
    /\ InitFrame

\* creator.print_project_structure(project_root)
PrintTree ==
    /\ pc = "print_call"
    /\ project_root' = TreeRoot
    /\ stdout' = PrintProjectStructure(dirs, files, TreeRoot)
    /\ pc' = "print_done"
    /\ UNCHANGED <<dirs, files, now, structure, project_name, timestamp, fi,
                   si, raised, caught, folder_specs, result, entry_dirs,
                   created, done_calls, ncalls>>

NextTree == PrintTree

SpecTree == InitTree /\ [][NextTree]_vars

\* ================================================================ claims
Range(s) == {s[k] : k \in 1..Len(s)}

MinOf(S) == CHOOSE x \in S : \A y \in S : x <= y

MaxOf(S) == CHOOSE x \in S : \A y \in S : y <= x

AllWhitespace(s) == \A k \in 1..Len(s) : s[k] \in Whitespace

\* the paths create_project makes, in the order it makes them
RECURSIVE PlannedBelow(_, _)
PlannedBelow(root, items) ==
    IF items = <<>> THEN <<>>
    ELSE LET folder == Append(root, Head(items).name)
         IN  <<folder>>
             \o [k \in 1..Len(Head(items).subs) |-> Append(folder, Head(items).subs[k])]
             \o PlannedBelow(root, Tail(items))

Planned == <<project_root>> \o PlannedBelow(project_root, structure)

\* C1: a call with an empty or whitespace-only project name ends with the
\* ValueError and has touched no directory: the filesystem is as it was
\* when the call was entered.
C1_EmptyNameRejectedUntouched ==
    (pc # "idle" /\ AllWhitespace(project_name)) =>
        /\ pc = "raised"
        /\ raised = "ValueError"
        /\ dirs = entry_dirs
        /\ created = <<>>

C1_Witness ==
    /\ pc = "raised"
    /\ raised = "ValueError"
    /\ project_name = <<" ">>
    /\ Cardinality(dirs) > 1

\* C2: when create_project has returned, with root = cwd/{n}_{timestamp},
\* root/k is a directory for every key k of the structure (also when the
\* key has no subfolders) and root/k/s is a directory for every entry s
\* of the key's list.
C2_LayoutCreated ==
    pc = "returned" =>
        LET root == << project_name \o <<"_">> \o timestamp >>
        IN  \A n \in 1..Len(structure) :
               /\ Append(root, structure[n].name) \in dirs
               /\ \A m \in 1..Len(structure[n].subs) :
                     Append(Append(root, structure[n].name),
                            structure[n].subs[m]) \in dirs

C2_Witness ==
    /\ pc = "returned"
    /\ structure = << [name |-> <<"a">>, subs |-> << <<"a">>, <<"b">> >>],
                      [name |-> <<"b">>, subs |-> <<>>] >>
    /\ << <<"p", "_", "0", "0">>, <<"b">> >> \in dirs
    /\ << <<"p", "_", "0", "0">>, <<"a">>, <<"b">> >> \in dirs

\* C3: when a directory-creation step fails, nothing further is created
\* and nothing is removed (the directories are those present at entry plus
\* the steps made before the failing one, in plan order), the OSError
\* reaches the caller, and a call returns only when no step failed.
C3_FailureStopsNoRollback ==
    /\ (pc \in {"except", "raised"} /\ raised # "ValueError") =>
          /\ raised = "OSError"
          /\ Len(created) < Len(Planned)
          /\ created = SubSeq(Planned, 1, Len(created))
          /\ dirs = entry_dirs \cup Range(created)
    /\ pc = "returned" =>
          /\ raised = "none"
          /\ created = Planned

C3_Witness ==
    /\ pc = "raised"
    /\ raised = "OSError"
    /\ Len(created) >= 2
    /\ Len(created) + 1 < Len(Planned)

\* C4: a call that repeats the project name and timestamp of a call that
\* returned raises nothing and leaves the set of directories as it found it.
C4_SecondCallIdempotent ==
    (pc # "idle" /\ <<project_name, timestamp>> \in done_calls) =>
        /\ raised = "none"
        /\ pc # "except"
        /\ dirs = entry_dirs

C4_Witness ==
    /\ pc = "returned"
    /\ <<project_name, timestamp>> \in done_calls
    /\ Len(created) >= 4

\* C5: the last component of the root path is the project name trimmed of
\* surrounding whitespace, an underscore and the timestamp.
C5_RootNameTrimmed ==
    (pc \in {"mkroot", "mkfolder", "mksub", "except", "returned"}) =>
        PathName(project_root) = Strip(project_name) \o <<"_">> \o timestamp

\* ---- reference rule of the folder-spec syntax, by positions in the token
HasColon(t) == \E k \in 1..Len(t) : t[k] = ":"

\* the text left of the first colon, or the whole token
RefFolderName(t) ==
    IF ~HasColon(t) THEN t
    ELSE SubSeq(t, 1, MinOf({k \in 1..Len(t) : t[k] = ":"}) - 1)

\* the text right of the first colon
RefSubSpec(t) == SubSeq(t, MinOf({k \in 1..Len(t) : t[k] = ":"}) + 1, Len(t))

\* the comma-free stretch of r starting at position a ends at SegEnd(r, a)
SegEnd(r, a) ==
    MinOf({b \in (a - 1)..Len(r) : b = Len(r) \/ r[b + 1] = ","})

\* r[a..b] without its surrounding whitespace
Trimmed(r, a, b) ==
    LET solid == {k \in a..b : r[k] \notin Whitespace}
    IN  IF solid = {} THEN <<>> ELSE SubSeq(r, MinOf(solid), MaxOf(solid))

RECURSIVE RefSubsFrom(_, _)
RefSubsFrom(r, a) ==
    IF a > Len(r) + 1 THEN <<>>
    ELSE LET b == SegEnd(r, a)
             piece == Trimmed(r, a, b)
         IN  (IF piece = <<>> THEN <<>> ELSE <<piece>>) \o RefSubsFrom(r, b + 2)

RefSubs(t) == IF HasColon(t) THEN RefSubsFrom(RefSubSpec(t), 1) ELSE <<>>

RefMapping(specs) ==
    [key \in {RefFolderName(specs[n]) : n \in 1..Len(specs)} |->
        RefSubs(specs[MaxOf({n \in 1..Len(specs) : RefFolderName(specs[n]) = key})])]

\* a dict as a mapping, without the insertion order
AsMapping(d) == [key \in DictKeys(d) |-> d[DictIndex(d, key)].subs]

\* C6: the parser returns the mapping of the reference rule: a token
\* without a colon gives its whole text and no subfolders; a token with a
\* colon is cut at the first colon, the right part cut at commas, pieces
\* trimmed, empty pieces dropped, order kept; the last token of a folder
\* name wins.
C6_ParserMatchesReference ==
    pc = "parse_done" =>
        /\ Cardinality(DictKeys(result)) = Len(result)
        /\ AsMapping(result) = RefMapping(folder_specs)

C6_Witness ==
    /\ pc = "parse_done"
    /\ folder_specs = << <<"a">>, <<"a", ":", "b", ",">> >>
    /\ result = << [name |-> <<"a">>, subs |-> << <<"b">> >>] >>

\* C9: every key of the mapping the parser returns is a non-empty string.
C9_KeysNonEmpty ==
    pc = "parse_done" => \A k \in 1..Len(result) : result[k].name # <<>>

\* ---- the tree display, read back from the printed lines
TreeLines(out) == SelectSeq(out, LAMBDA l : l.kind = "tree")

Entry(depth, name, isdir) == [depth |-> depth, name |-> name, isdir |-> isdir]

PrintedEntries(out) ==
    LET L == TreeLines(out)
    IN  [k \in 1..Len(L) |-> Entry(Len(L[k].prefix), L[k].name, L[k].slash)]

\* the entries below the directory p: subdirectories in order, each with
\* its own listing, then the files in order
RECURSIVE ListingBelow(_, _)
RECURSIVE ListingOfDirs(_, _)
ListingOfDirs(ds, depth) ==
    IF ds = <<>> THEN <<>>
    ELSE <<Entry(depth, PathName(Head(ds)), TRUE)>>
         \o ListingBelow(Head(ds), depth + 1)
         \o ListingOfDirs(Tail(ds), depth)

ListingBelow(p, depth) ==
    LET ds == SortedPaths(IterDir(dirs, files, p) \cap dirs)
        fs == SortedPaths(IterDir(dirs, files, p) \cap files)
    IN  ListingOfDirs(ds, depth)
        \o [k \in 1..Len(fs) |-> Entry(depth, PathName(fs[k]), FALSE)]

\* C7: the printed tree lists every entry below the project root; at every
\* level, the root level included, the subdirectories come in order, each
\* followed by its own listing, before the files in order.
C7_ListingComplete ==
    pc = "print_done" => PrintedEntries(stdout) = ListingBelow(TreeRoot, 0)

\* line k is the last printed among its siblings: no later line of the same
\* depth before the listing returns to a shallower depth
LastPrinted(L, k) ==
    ~\E m \in (k + 1)..Len(L) :
        /\ Len(L[m].prefix) = Len(L[k].prefix)
        /\ \A n \in (k + 1)..(m - 1) : Len(L[n].prefix) > Len(L[k].prefix)

\* the line of the ancestor of line k at depth d
AncestorLine(L, k, d) == MaxOf({m \in 1..(k - 1) : Len(L[m].prefix) = d})

\* C10: a printed entry carries the last-sibling connector exactly when it
\* is the last entry printed among its siblings, and every ancestor level
\* contributes a blank when that ancestor was a last sibling and a vertical
\* continuation otherwise.
C10_ConnectorsMatchSiblings ==
    pc = "print_done" =>
        LET L == TreeLines(stdout)
        IN  \A k \in 1..Len(L) :
               /\ L[k].connector = (IF LastPrinted(L, k) THEN ELBOW ELSE TEE)
               /\ \A d \in 1..Len(L[k].prefix) :
                     L[k].prefix[d] =
                        (IF LastPrinted(L, AncestorLine(L, k, d - 1))
                         THEN BLANK ELSE PIPE)

\* the last line main printed
LastLine == stdout[Len(stdout)]

\* C8: main ends with no exception in flight, whatever create_project did,
\* and the message it printed matches what it caught: Input error for the
\* ValueError of an empty name, File system error for an OSError, Unknown
\* error for anything else, and no error message when nothing was raised.
C8_MainReportsAndReturns ==
    /\ raised # "none" => pc \in {"except", "raised"}
    /\ pc = "exited" =>
          /\ AllWhitespace(project_name) <=> caught = "ValueError"
          /\ caught = "ValueError" => LastLine = TextLine("Input error")
          /\ caught = "OSError" => LastLine = TextLine("File system error")
          /\ caught = "Exception" => LastLine = TextLine("Unknown error")
          /\ caught = "none" => LastLine = TextLine("=")

C8_Witness ==
    /\ pc = "exited"
    /\ caught = "OSError"
    /\ Len(created) >= 2
    /\ Len(stdout) = 2

====
